---- MODULE Spec2Model ----
(***************************************************************************)
(* A model of tonutils: the exit-code table, the transaction trace         *)
(* reconstructor (Transaction.from_ton_api_trace), the receipt collapse    *)
(* (TransactionReceipt.from_transaction), the TonapiClient lookups that    *)
(* drive them, the NFT collection message builders, and the                *)
(* LiteserverClient start-up and close protocol.                           *)
(*                                                                         *)
(* Python values are encoded as follows.                                   *)
(*   dict            a function with a string domain; an absent key is     *)
(*                   absent from the domain, {} is the empty function      *)
(*   Optional[T]     None is <<>>, a value v is <<v>>                      *)
(*   list            a sequence                                            *)
(*   str             a TLA+ string; a string that the code transforms      *)
(*                   character by character (a skip reason) is a sequence  *)
(*                   of one-character strings until it has been normalised *)
(***************************************************************************)
EXTENDS Integers, Sequences, FiniteSets, TLC

VARIABLES
    code_map,   \* ExitCode._code_map, the class attribute
    code,       \* the argument of the ExitCode.translate call
    tag,        \* what ExitCode.translate returned
    pc,         \* where the TonapiClient lookup stands
    result,     \* what the backend answered to the trace request
    root_txn,   \* the Transaction reconstructed from it
    lookups,    \* the block ids get_block_hash was called with, in order
    receipt,    \* what the lookup returned
    raised,     \* the exception that left the lookup, "" when none
    backend_error,  \* the failure the backend request raised, None when none
    family,     \* the collection class whose builder is called
    mint_args,  \* the arguments of the builder call
    body,       \* the Cell the builder returned
    mint_pc,    \* where the builder call stands
    inited,     \* LiteserverClient.client.inited
    tasks,      \* where each caller of the LiteserverClient stands
    lite_log,   \* the calls made on the balancer, in order
    lite_calls  \* the number of LiteserverClient operations called so far

vars == <<code_map, code, tag, pc, result, root_txn, lookups, receipt, raised,
          backend_error, family, mint_args, body, mint_pc,
          inited, tasks, lite_log, lite_calls>>

exit_vars == <<code, tag>>
trace_vars == <<pc, result, root_txn, lookups, receipt, raised, backend_error>>
mint_vars == <<family, mint_args, body, mint_pc>>
lite_vars == <<inited, tasks, lite_log, lite_calls>>

----------------------------------------------------------------------------
\* Optional values and dict access

None == <<>>

Some(v) == <<v>>

Val(o) == o[1]

EmptyDict == <<>>

\* d.get(k) for a key whose value is itself a dict or a list
Get(d, k) == IF k \in DOMAIN d THEN Some(d[k]) ELSE None

\* d.get(k, default)
GetOr(d, k, default) == IF k \in DOMAIN d THEN d[k] ELSE default

----------------------------------------------------------------------------
\* str.lower() and str.replace(" ", "_") on a sequence of characters

UpperChars ==
    <<"A", "B", "C", "D", "E", "F", "G", "H", "I", "J", "K", "L", "M",
      "N", "O", "P", "Q", "R", "S", "T", "U", "V", "W", "X", "Y", "Z">>

LowerChars ==
    <<"a", "b", "c", "d", "e", "f", "g", "h", "i", "j", "k", "l", "m",
      "n", "o", "p", "q", "r", "s", "t", "u", "v", "w", "x", "y", "z">>

lower_char(c) ==
    IF \E i \in DOMAIN UpperChars : UpperChars[i] = c
    THEN LowerChars[CHOOSE i \in DOMAIN UpperChars : UpperChars[i] = c]
    ELSE c

lower(s) == [i \in DOMAIN s |-> lower_char(s[i])]

replace_space(s) == [i \in DOMAIN s |-> IF s[i] = " " THEN "_" ELSE s[i]]

RECURSIVE Str(_)
Str(s) == IF s = <<>> THEN "" ELSE Head(s) \o Str(Tail(s))

\* skip_reason.lower().replace(" ", "_")
normalize(s) == Str(replace_space(lower(s)))

----------------------------------------------------------------------------
\* ExitCode

CodeMapKeys == (0 .. 14) \cup {-14} \cup (32 .. 43) \cup {50} \cup (128 .. 138)

CodeMapTable ==
    [c \in CodeMapKeys |->
        CASE c = 0 -> "standard_successful_execution"
          [] c = 1 -> "alternative_successful_execution_reserved"
          [] c = 2 -> "stack_underflow"
          [] c = 3 -> "stack_overflow"
          [] c = 4 -> "integer_overflow"
          [] c = 5 -> "range_check_error"
          [] c = 6 -> "invalid_tvm_opcode"
          [] c = 7 -> "type_check_error"
          [] c = 8 -> "cell_overflow"
          [] c = 9 -> "cell_underflow"
          [] c = 10 -> "dictionary_error"
          [] c = 11 -> "unknown_error"
          [] c = 12 -> "fatal_error"
          [] c = 13 -> "out_of_gas"
          [] c = -14 -> "out_of_gas"
          [] c = 14 -> "vm_virtualization_error"
          [] c = 32 -> "action_list_invalid"
          [] c = 33 -> "action_list_too_long"
          [] c = 34 -> "action_invalid_or_not_supported"
          [] c = 35 -> "invalid_source_address"
          [] c = 36 -> "invalid_destination_address"
          [] c = 37 -> "not_enough_toncoin"
          [] c = 38 -> "not_enough_extra_currencies"
          [] c = 39 -> "outbound_message_does_not_fit"
          [] c = 40 -> "cannot_process_message"
          [] c = 41 -> "library_reference_null"
          [] c = 42 -> "library_change_error"
          [] c = 43 -> "exceeded_max_cells_or_depth"
          [] c = 50 -> "account_state_size_exceeded"
          [] c = 128 -> "null_reference_exception"
          [] c = 129 -> "invalid_serialization_prefix"
          [] c = 130 -> "invalid_incoming_message"
          [] c = 131 -> "constraints_error"
          [] c = 132 -> "access_denied"
          [] c = 133 -> "contract_stopped"
          [] c = 134 -> "invalid_argument"
          [] c = 135 -> "contract_code_not_found"
          [] c = 136 -> "invalid_standard_address"
          [] c = 137 -> "masterchain_support_not_enabled"
          [] c = 138 -> "not_a_basechain_address"]

\* f"unknown_exit_code_{code}"
unknown_exit_code(c) == "unknown_exit_code_" \o ToString(c)

\* translate with a default tag that leaves the code out
translate_unknown_plain(c) ==
    IF c = None
    THEN None
    ELSE IF Val(c) \in DOMAIN code_map
         THEN Some(code_map[Val(c)])
         ELSE Some("unknown_exit_code")

\* ExitCode.translate(code), code an Optional[int]
translate(c) ==
    IF c = None
    THEN None
    ELSE IF Val(c) \in DOMAIN code_map
         THEN Some(code_map[Val(c)])
         ELSE Some(unknown_exit_code(Val(c)))

----------------------------------------------------------------------------
\* PhaseResult and Transaction.from_ton_api_trace

PhaseResult(success, skipped, skip_reason, exit_code) ==
    [success |-> success, skipped |-> skipped,
     skip_reason |-> skip_reason, exit_code |-> exit_code]

missing_phase_info ==
    <<"m", "i", "s", "s", "i", "n", "g", "_", "p", "h", "a", "s", "e", "_",
      "i", "n", "f", "o">>

skipped_default == <<"s", "k", "i", "p", "p", "e", "d">>

\* the truth value of an Optional[str] held as characters
Truthy(o) == o # None /\ Val(o) # <<>>

\* parse_phase reading the legacy result_code before exit_code
parse_phase_result_code_first(phase) ==
    IF phase = None \/ Val(phase) = EmptyDict
    THEN PhaseResult(FALSE, TRUE, Some(missing_phase_info), None)
    ELSE LET p == Val(phase) IN
         IF GetOr(p, "skipped", FALSE)
         THEN PhaseResult(FALSE, TRUE,
                          GetOr(p, "skip_reason", Some(skipped_default)), None)
         ELSE PhaseResult(GetOr(p, "success", FALSE), FALSE, None,
                          IF "result_code" \in DOMAIN p
                          THEN Some(p.result_code)
                          ELSE IF "exit_code" \in DOMAIN p
                               THEN Some(p.exit_code)
                               ELSE None)

\* parse_phase(phase), phase being tx_data.get(<phase key>)
parse_phase(phase) ==
    IF phase = None \/ Val(phase) = EmptyDict
    THEN PhaseResult(FALSE, TRUE, Some(missing_phase_info), None)
    ELSE LET p == Val(phase) IN
         IF GetOr(p, "skipped", FALSE)
         THEN PhaseResult(FALSE, TRUE,
                          GetOr(p, "skip_reason", Some(skipped_default)), None)
         ELSE PhaseResult(GetOr(p, "success", FALSE), FALSE, None,
                          IF "exit_code" \in DOMAIN p
                          THEN Some(p.exit_code)
                          ELSE IF "result_code" \in DOMAIN p
                               THEN Some(p.result_code)
                               ELSE None)

\* the property PhaseResult.error
PhaseResult_error(phase) ==
    IF phase.skipped /\ Truthy(phase.skip_reason)
    THEN Some(normalize(Val(phase.skip_reason)))
    ELSE IF ~phase.success /\ phase.exit_code # None
         THEN translate(phase.exit_code)
         ELSE None

\* derive_error consulting the action phase before the compute result
derive_error_action_first(compute_phase, action_phase) ==
    IF compute_phase.skipped
    THEN IF Truthy(compute_phase.skip_reason)
         THEN Some(normalize(Val(compute_phase.skip_reason)))
         ELSE Some("compute_phase_skipped")
    ELSE IF ~action_phase.success
         THEN translate(action_phase.exit_code)
         ELSE IF ~compute_phase.success
              THEN translate(compute_phase.exit_code)
              ELSE None

\* lines 152-167: the error of a node, from its two parsed phases
derive_error(compute_phase, action_phase) ==
    IF compute_phase.skipped
    THEN IF Truthy(compute_phase.skip_reason)
         THEN Some(normalize(Val(compute_phase.skip_reason)))
         ELSE Some("compute_phase_skipped")
    ELSE IF ~compute_phase.success
         THEN translate(compute_phase.exit_code)
         ELSE IF ~action_phase.success
              THEN translate(action_phase.exit_code)
              ELSE None

\* derive_success without the override by a derived error
derive_success_raw_only(tx_data, error) ==
    GetOr(tx_data, "success", FALSE) /\ ~GetOr(tx_data, "aborted", FALSE)

\* lines 143-147 and 170-171: the success flag of a node
derive_success(tx_data, error) ==
    LET raw_success == GetOr(tx_data, "success", FALSE)
        raw_aborted == GetOr(tx_data, "aborted", FALSE)
        success == raw_success /\ ~raw_aborted
    IN  IF error # None THEN FALSE ELSE success

\* parses_children not looking at the success of the node
parses_children_always(success, data) ==
    "children" \in DOMAIN data /\ data.children # <<>>

\* lines 175: whether the children of a node are parsed
parses_children(success, data) ==
    success /\ "children" \in DOMAIN data /\ data.children # <<>>

\* the patch applied to every node that failed without reported interfaces
derive_interfaces_any_error(data, error) ==
    LET interfaces == GetOr(data, "interfaces", <<>>) IN
    IF interfaces = <<>> /\ error # None
    THEN <<"uninit">>
    ELSE interfaces

\* lines 179-181
derive_interfaces(data, error) ==
    LET interfaces == GetOr(data, "interfaces", <<>>) IN
    IF interfaces = <<>> /\ error = Some("cskip_no_state")
    THEN <<"uninit">>
    ELSE interfaces

\* Transaction.__init__ (the pass-through fields timestamp, total_fees,
\* end_balance and op_code are not carried)
Transaction(hash, block, account, success, compute_phase, action_phase, error, interfaces, children) ==
    [hash |-> hash, block |-> block, account |-> account,
     success |-> success, compute_phase |-> compute_phase,
     action_phase |-> action_phase, error |-> error,
     interfaces |-> interfaces, children |-> children]

RECURSIVE from_ton_api_trace(_)

\* from_ton_api_trace leaving out the last child of every node
from_ton_api_trace_drops_last(data) ==
    LET tx_data == IF "transaction" \in DOMAIN data
                   THEN data.transaction ELSE data
        compute_phase == parse_phase(Get(tx_data, "compute_phase"))
        action_phase == parse_phase(Get(tx_data, "action_phase"))
        error == derive_error(compute_phase, action_phase)
        success == derive_success(tx_data, error)
        children ==
            IF parses_children(success, data)
            THEN [i \in 1 .. (Len(data.children) - 1) |->
                     from_ton_api_trace(data.children[i])]
            ELSE <<>>
        interfaces == derive_interfaces(data, error)
    IN  Transaction(GetOr(tx_data, "hash", ""), GetOr(tx_data, "block", ""),
                    tx_data.account.address, success, compute_phase,
                    action_phase, error, interfaces, children)

from_ton_api_trace(data) ==
    LET tx_data == IF "transaction" \in DOMAIN data
                   THEN data.transaction ELSE data
        compute_phase == parse_phase(Get(tx_data, "compute_phase"))
        action_phase == parse_phase(Get(tx_data, "action_phase"))
        error == derive_error(compute_phase, action_phase)
        success == derive_success(tx_data, error)
        children ==
            IF parses_children(success, data)
            THEN [i \in DOMAIN data.children |->
                     from_ton_api_trace(data.children[i])]
            ELSE <<>>
        interfaces == derive_interfaces(data, error)
    IN  Transaction(GetOr(tx_data, "hash", ""), GetOr(tx_data, "block", ""),
                    tx_data.account.address, success, compute_phase,
                    action_phase, error, interfaces, children)

\* a reconstruction that raises at every node of a failed transaction
RECURSIVE raises_KeyError_on_failure(_)
raises_KeyError_on_failure(data) ==
    LET tx_data == IF "transaction" \in DOMAIN data
                   THEN data.transaction ELSE data
        error == derive_error(parse_phase(Get(tx_data, "compute_phase")),
                              parse_phase(Get(tx_data, "action_phase")))
        success == derive_success(tx_data, error)
    IN  \/ /\ parses_children(success, data)
           /\ \E i \in DOMAIN data.children :
                 raises_KeyError_on_failure(data.children[i])
        \/ "account" \notin DOMAIN tx_data
        \/ error # None

\* Transaction.from_ton_api_trace raises KeyError: tx_data["account"] of a
\* node that has no account, the node being the one passed in or one that the
\* recursion over the children of successful nodes comes to
RECURSIVE raises_KeyError(_)
raises_KeyError(data) ==
    LET tx_data == IF "transaction" \in DOMAIN data
                   THEN data.transaction ELSE data
        error == derive_error(parse_phase(Get(tx_data, "compute_phase")),
                              parse_phase(Get(tx_data, "action_phase")))
        success == derive_success(tx_data, error)
    IN  \/ /\ parses_children(success, data)
           /\ \E i \in DOMAIN data.children : raises_KeyError(data.children[i])
        \/ "account" \notin DOMAIN tx_data

----------------------------------------------------------------------------
\* TransactionReceipt

\* TransactionReceipt.__init__: error is stored as `error or []`
TransactionReceipt(hash, block, block_hash, success, batch_transaction, raw_transaction, error, interfaces) ==
    [hash |-> hash, block |-> block, block_hash |-> block_hash,
     success |-> success, batch_transaction |-> batch_transaction,
     raw_transaction |-> raw_transaction,
     error |-> IF error = None \/ Val(error) = <<>>
               THEN Some(<<>>) ELSE error,
     interfaces |-> interfaces]

SeqToSet(s) == {s[i] : i \in DOMAIN s}

\* stops_at never stopping, so that no error is collected
stops_at_never(tx) == FALSE

\* the node of traverse stops here: `not tx.success and tx.error`
stops_at(tx) == ~tx.success /\ tx.error # None /\ Val(tx.error) # ""

\* is_batch_node asking for more than two children
is_batch_node_gt2(tx) == Len(tx.children) > 2

\* `len(tx.children) >= 2`
is_batch_node(tx) == Len(tx.children) >= 2

RECURSIVE traverse(_)
RECURSIVE traverse_children(_, _)

\* traverse_children dropping the batch flag of the children
RECURSIVE traverse_children_own_batch(_, _)
traverse_children_own_batch(children, acc) ==
    IF children = <<>>
    THEN acc
    ELSE LET child == traverse(Head(children)) IN
         traverse_children_own_batch(Tail(children),
             [collected_errors |-> acc.collected_errors \o child.collected_errors,
              batch_node |-> acc.batch_node,
              interfaces |-> acc.interfaces \cup child.interfaces])

\* traverse_children putting the errors of a child before those collected
RECURSIVE traverse_children_errors_first(_, _)
traverse_children_errors_first(children, acc) ==
    IF children = <<>>
    THEN acc
    ELSE LET child == traverse(Head(children)) IN
         traverse_children_errors_first(Tail(children),
             [collected_errors |-> child.collected_errors \o acc.collected_errors,
              batch_node |-> acc.batch_node \/ child.batch_node,
              interfaces |-> acc.interfaces \cup child.interfaces])

\* traverse collecting the error of a failed node and descending all the same
traverse_descends_after_error(tx) ==
    traverse_children(tx.children,
        [collected_errors |-> IF stops_at(tx) THEN <<Val(tx.error)>> ELSE <<>>,
         batch_node |-> is_batch_node(tx),
         interfaces |-> SeqToSet(tx.interfaces)])

\* traverse looking at the root only
traverse_root_only(tx) ==
    [collected_errors |-> IF stops_at(tx) THEN <<Val(tx.error)>> ELSE <<>>,
     batch_node |-> ~stops_at(tx) /\ is_batch_node(tx),
     interfaces |-> SeqToSet(tx.interfaces)]

\* traverse testing for the stop before it collects the node's interfaces
traverse_stop_first(tx) ==
    IF stops_at(tx)
    THEN [collected_errors |-> <<Val(tx.error)>>, batch_node |-> FALSE,
          interfaces |-> {}]
    ELSE traverse_children(tx.children,
             [collected_errors |-> <<>>, batch_node |-> is_batch_node(tx),
              interfaces |-> SeqToSet(tx.interfaces)])

\* the `for child in tx.children` loop of traverse, acc being the three locals
traverse_children(children, acc) ==
    IF children = <<>>
    THEN acc
    ELSE LET child == traverse(Head(children)) IN
         traverse_children(Tail(children),
             [collected_errors |-> acc.collected_errors \o child.collected_errors,
              batch_node |-> acc.batch_node \/ child.batch_node,
              interfaces |-> acc.interfaces \cup child.interfaces])

traverse(tx) ==
    LET interfaces == SeqToSet(tx.interfaces) IN
    IF stops_at(tx)
    THEN [collected_errors |-> <<Val(tx.error)>>, batch_node |-> FALSE,
          interfaces |-> interfaces]
    ELSE traverse_children(tx.children,
             [collected_errors |-> <<>>, batch_node |-> is_batch_node(tx),
              interfaces |-> interfaces])

\* the orders list(interfaces) can give for a set
RECURSIVE ListsOf(_)
ListsOf(S) ==
    IF S = {} THEN {<<>>}
    ELSE UNION {{<<x>> \o l : l \in ListsOf(S \ {x})} : x \in S}

\* TransactionReceipt.from_transaction; ifaces is the order list() produced
from_transaction(tx, block_hash, ifaces) ==
    LET t == traverse(tx) IN
    TransactionReceipt(tx.hash, tx.block, block_hash,
                       Len(t.collected_errors) = 0, t.batch_node, tx,
                       IF t.collected_errors = <<>>
                       THEN None ELSE Some(t.collected_errors),
                       IF t.interfaces = {} THEN None ELSE Some(ifaces))

----------------------------------------------------------------------------
\* Cells. A Builder or Cell is its stored fields, each <<kind, width, value>>,
\* and its references, in the order they were stored. An opcode is the name
\* op_codes.py gives it. content.serialize() and HashMap.serialize() belong to
\* libraries: a content cell is the content it was made from, a serialized
\* dictionary is its key width and its key-value map.

NFT_MINT_OPCODE == "NFT_MINT_OPCODE"

BATCH_NFT_MINT_OPCODE == "BATCH_NFT_MINT_OPCODE"

ADMIN_NFT_MINT_OPCODE == "ADMIN_NFT_MINT_OPCODE"

RETURN_COLLECTION_BALANCE_OPCODE == "RETURN_COLLECTION_BALANCE_OPCODE"

begin_cell == [bits |-> <<>>, refs |-> <<>>]

store_uint(b, v, w) == [b EXCEPT !.bits = Append(@, <<"uint", w, v>>)]

store_coins(b, v) == [b EXCEPT !.bits = Append(@, <<"coins", 0, v>>)]

store_address(b, a) == [b EXCEPT !.bits = Append(@, <<"address", 267, a>>)]

store_ref(b, c) == [b EXCEPT !.refs = Append(@, c)]

store_dict(b, d) == [b EXCEPT !.refs = Append(@, d)]

end_cell(b) == b

serialize_content(content) == [bits |-> <<<<"content", 0, content>>>>, refs |-> <<>>]

\* HashMap with 32-bit keys whatever width was asked for
HashMap_narrow(key_size) == [key_size |-> 32, map |-> <<>>]

\* HashMap(key_size=...)
HashMap(key_size) == [key_size |-> key_size, map |-> <<>>]

\* HashMap.set_int_key: a later value for a key replaces the earlier one
set_int_key(h, k, v) == [h EXCEPT !.map = (k :> v) @@ @]

\* the key of the i-th item with every item under the first index
item_key_first_only(i, from_index) == from_index

\* `i + from_index`, the key of the i-th item of enumerate(data, start=0)
item_key(i, from_index) == i + from_index

\* `x or default` giving the default whatever x is
OrElse_default(x, default) == default

\* `x or default` for an Optional x whose values are never falsy
OrElse(x, default) == IF x = None THEN default ELSE Val(x)

\* `revoked_at or 0`
revoked_or_zero(x) == IF x = None \/ Val(x) = 0 THEN 0 ELSE Val(x)

\* the value CollectionStandardBase.build_batch_mint_body stores for an item
standard_batch_item(item, amount_per_one) ==
    end_cell(store_ref(store_coins(begin_cell, amount_per_one),
        end_cell(store_ref(store_address(begin_cell, item[2]),
                           serialize_content(item[1])))))

\* the soulbound batch value with revoked_at stored before the authority
soulbound_batch_item_revoked_first(item, amount_per_one) ==
    end_cell(store_ref(store_coins(begin_cell, amount_per_one),
        end_cell(store_ref(
            store_address(
                store_uint(store_address(begin_cell, item[2]),
                           revoked_or_zero(item[4]), 64),
                OrElse(item[3], item[2])),
            serialize_content(item[1])))))

\* the value CollectionSoulboundBase.build_batch_mint_body stores for an item
soulbound_batch_item(item, amount_per_one) ==
    end_cell(store_ref(store_coins(begin_cell, amount_per_one),
        end_cell(store_ref(
            store_uint(
                store_address(store_address(begin_cell, item[2]),
                              OrElse(item[3], item[2])),
                revoked_or_zero(item[4]), 64),
            serialize_content(item[1])))))

\* the value SweetCollectionStandard.build_batch_mint_body stores for an owner
sweet_standard_batch_item(owner_address, amount_per_one) ==
    end_cell(store_ref(begin_cell,
        end_cell(store_coins(
            store_ref(begin_cell,
                      end_cell(store_address(begin_cell, owner_address))),
            amount_per_one))))

\* the message body around the dictionary
batch_body(items_dict, query_id) ==
    end_cell(store_dict(
        store_uint(store_uint(begin_cell, BATCH_NFT_MINT_OPCODE, 32), query_id, 64),
        items_dict))

RECURSIVE standard_batch_loop(_, _, _, _, _)
standard_batch_loop(data, i, from_index, amount_per_one, items_dict) ==
    IF i >= Len(data)
    THEN items_dict
    ELSE standard_batch_loop(data, i + 1, from_index, amount_per_one,
             set_int_key(items_dict, item_key(i, from_index),
                         standard_batch_item(data[i + 1], amount_per_one)))

RECURSIVE soulbound_batch_loop(_, _, _, _, _)
soulbound_batch_loop(data, i, from_index, amount_per_one, items_dict) ==
    IF i >= Len(data)
    THEN items_dict
    ELSE soulbound_batch_loop(data, i + 1, from_index, amount_per_one,
             set_int_key(items_dict, item_key(i, from_index),
                         soulbound_batch_item(data[i + 1], amount_per_one)))

RECURSIVE sweet_standard_batch_loop(_, _, _, _)
sweet_standard_batch_loop(addresses, i, amount_per_one, items_dict) ==
    IF i >= Len(addresses)
    THEN items_dict
    ELSE sweet_standard_batch_loop(addresses, i + 1, amount_per_one,
             set_int_key(items_dict, i,
                         sweet_standard_batch_item(addresses[i + 1], amount_per_one)))

\* what a call gives: a Cell, or the exception it raised
Returns(cell) == [raised |-> "", cell |-> Some(cell)]

Raises(exception) == [raised |-> exception, cell |-> None]

StandardBaseFamilies ==
    {"CollectionStandardBase", "CollectionStandard", "CollectionStandardModified"}

SoulboundBaseFamilies ==
    {"CollectionSoulboundBase", "CollectionSoulbound", "CollectionSoulboundModified"}

\* CollectionStandardBase.build_batch_mint_body
standard_build_batch_mint_body(args) ==
    Returns(batch_body(
        standard_batch_loop(args.data, 0, args.from_index, args.amount_per_one,
                            HashMap(64)),
        args.query_id))

\* CollectionSoulboundBase.build_batch_mint_body
soulbound_build_batch_mint_body(args) ==
    Returns(batch_body(
        soulbound_batch_loop(args.data, 0, args.from_index, args.amount_per_one,
                             HashMap(64)),
        args.query_id))

\* SweetCollectionStandard.build_batch_mint_body
sweet_standard_build_batch_mint_body(args) ==
    Returns(batch_body(
        sweet_standard_batch_loop(args.addresses, 0, args.amount_per_one,
                                  HashMap(64)),
        args.query_id))

\* build_batch_mint_body with SweetCollectionSoulbound inheriting its base's
build_batch_mint_body_inherited(cls, args) ==
    CASE cls \in StandardBaseFamilies -> standard_build_batch_mint_body(args)
      [] cls = "SweetCollectionStandard" -> sweet_standard_build_batch_mint_body(args)
      [] OTHER -> soulbound_build_batch_mint_body(args)

\* cls.build_batch_mint_body(...): the subclasses of a base pass their
\* arguments to it, the two sweet classes define their own
build_batch_mint_body(cls, args) ==
    CASE cls \in StandardBaseFamilies -> standard_build_batch_mint_body(args)
      [] cls = "SweetCollectionStandard" -> sweet_standard_build_batch_mint_body(args)
      [] cls \in SoulboundBaseFamilies -> soulbound_build_batch_mint_body(args)
      [] cls = "SweetCollectionSoulbound" -> Raises("NotImplementedError")

\* CollectionStandardBase.build_mint_body
standard_build_mint_body(args) ==
    Returns(end_cell(store_ref(
        store_coins(
            store_uint(
                store_uint(store_uint(begin_cell, NFT_MINT_OPCODE, 32),
                           args.query_id, 64),
                args.index, 64),
            args.amount),
        end_cell(store_address(begin_cell, args.owner_address)))))

\* CollectionSoulboundBase.build_mint_body
soulbound_build_mint_body(args) ==
    Returns(end_cell(store_ref(
        store_coins(
            store_uint(
                store_uint(store_uint(begin_cell, NFT_MINT_OPCODE, 32),
                           args.query_id, 64),
                args.index, 64),
            args.amount),
        end_cell(store_uint(
            store_address(
                store_ref(store_address(begin_cell, args.owner_address),
                          serialize_content(args.content)),
                OrElse(args.authority_address, args.owner_address)),
            args.revoked_at, 64)))))

\* the mint opcode whatever admin_mint says
mint_op_code_never_admin(admin_mint) == NFT_MINT_OPCODE

\* op_code = ADMIN_NFT_MINT_OPCODE if admin_mint else NFT_MINT_OPCODE
mint_op_code(admin_mint) ==
    IF admin_mint THEN ADMIN_NFT_MINT_OPCODE ELSE NFT_MINT_OPCODE

\* SweetCollectionStandard.build_mint_body
sweet_standard_build_mint_body(args) ==
    Returns(end_cell(store_ref(
        store_coins(
            store_uint(store_uint(begin_cell, mint_op_code(args.admin_mint), 32),
                       args.query_id, 64),
            args.amount),
        end_cell(store_address(begin_cell, args.owner_address)))))

\* SweetCollectionSoulbound.build_mint_body
sweet_soulbound_build_mint_body(args) ==
    Returns(end_cell(store_ref(
        store_coins(
            store_uint(store_uint(begin_cell, NFT_MINT_OPCODE, 32),
                       args.query_id, 64),
            args.amount),
        end_cell(store_ref(store_address(begin_cell, args.owner_address),
                           serialize_content(args.content))))))

\* cls.build_mint_body(...): the subclasses of a base pass their arguments to
\* it, the two sweet classes define their own
build_mint_body(cls, args) ==
    CASE cls \in StandardBaseFamilies -> standard_build_mint_body(args)
      [] cls = "SweetCollectionStandard" -> sweet_standard_build_mint_body(args)
      [] cls \in SoulboundBaseFamilies -> soulbound_build_mint_body(args)
      [] cls = "SweetCollectionSoulbound" -> sweet_soulbound_build_mint_body(args)

\* the classes that define build_return_balance
ReturnBalanceFamilies == {"CollectionStandardModified", "CollectionSoulboundModified"}

\* CollectionStandardModified.build_return_balance and
\* CollectionSoulboundModified.build_return_balance, which are the same
build_return_balance(cls, args) ==
    Returns(end_cell(
        store_uint(store_uint(begin_cell, RETURN_COLLECTION_BALANCE_OPCODE, 32),
                   args.query_id, 64)))

----------------------------------------------------------------------------
\* What the backend can answer to a trace request

MaxNodes == 4

Chars_no_state == <<"N", "o", " ", "s", "t", "a", "t", "e">>

Chars_cskip_no_state ==
    <<"c", "s", "k", "i", "p", "_", "n", "o", "_", "s", "t", "a", "t", "e">>

SkipReasons ==
    {None, Some(<<>>), Some(Chars_no_state), Some(Chars_cskip_no_state)}

ExitCodesIn == {0, 37, 999}

SkippedPhases ==
    {[skipped |-> TRUE]}
        \cup {[skipped |-> TRUE, skip_reason |-> r] : r \in SkipReasons}

RanPhases ==
    {s @@ e @@ r :
        s \in {[success |-> b] : b \in BOOLEAN},
        e \in {EmptyDict} \cup {[exit_code |-> c] : c \in ExitCodesIn},
        r \in {EmptyDict, [result_code |-> 13]}}
        \cup {EmptyDict, [exit_code |-> 37]}

PhaseDicts == SkippedPhases \cup RanPhases

\* the ways a key k can be absent from, or present in, a dict
Opt(k, values) == {EmptyDict} \cup {[x \in {k} |-> v] : v \in values}

FlatBase ==
    [hash |-> "h0", block |-> "(0,8000000000000000,1)",
     account |-> [address |-> "0:root"]]

\* a transaction as /v2/blockchain/transactions/{hash} answers it: one node,
\* every combination of its flags and phases
FlatInputs ==
    {FlatBase @@ s @@ a @@ c @@ ap @@ i :
        s \in Opt("success", BOOLEAN),
        a \in Opt("aborted", BOOLEAN),
        c \in Opt("compute_phase", PhaseDicts),
        ap \in Opt("action_phase", PhaseDicts),
        i \in Opt("interfaces", {<<"wallet_v5r1">>})}

Ok == [success |-> TRUE, exit_code |-> 0]

TxBase ==
    [hash |-> "h1", block |-> "(0,8000000000000000,2)",
     account |-> [address |-> "0:node"]]

\* the nodes of a trace: one per outcome of the reconstruction of a node
NodeKinds ==
    { \* succeeds
      [transaction |-> TxBase @@ [success |-> TRUE, aborted |-> FALSE,
                                  compute_phase |-> Ok, action_phase |-> Ok],
       interfaces |-> <<"wallet_v5r1">>],
      \* action phase fails with a known code, raw flags say success
      [transaction |-> TxBase @@ [success |-> TRUE, aborted |-> FALSE,
                                  compute_phase |-> Ok,
                                  action_phase |-> [success |-> FALSE,
                                                    result_code |-> 37]],
       interfaces |-> <<"nft_item">>],
      \* compute phase skipped, no contract state, no interfaces reported
      [transaction |-> TxBase @@ [success |-> FALSE, aborted |-> TRUE,
                                  compute_phase |->
                                      [skipped |-> TRUE,
                                       skip_reason |-> Some(Chars_cskip_no_state)]]],
      \* reported failed, both phases successful
      [transaction |-> TxBase @@ [success |-> FALSE, aborted |-> TRUE,
                                  compute_phase |-> Ok, action_phase |-> Ok],
       interfaces |-> <<"nft_collection">>],
      \* compute phase unsuccessful without an exit code, raw flags say success
      [transaction |-> TxBase @@ [success |-> TRUE,
                                  compute_phase |-> [success |-> FALSE],
                                  action_phase |-> Ok],
       interfaces |-> <<"wallet_v5r1">>] }

RECURSIVE TreesOfSize(_)
RECURSIVE ForestsOfSize(_)

\* the lists of traces with n nodes in all
ForestsOfSize(n) ==
    IF n = 0 THEN {<<>>}
    ELSE UNION {{<<t>> \o f : t \in TreesOfSize(k), f \in ForestsOfSize(n - k)} :
                   k \in 1 .. n}

\* the traces with n nodes
TreesOfSize(n) ==
    {kind @@ [children |-> f] : kind \in NodeKinds, f \in ForestsOfSize(n - 1)}

\* a trace as /v2/traces/{hash} answers it
TraceInputs == UNION {TreesOfSize(n) : n \in 1 .. MaxNodes}

\* a node that succeeds and has no account
NoAccountNode ==
    [transaction |-> [hash |-> "h2", block |-> "(0,8000000000000000,3)",
                      success |-> TRUE, aborted |-> FALSE,
                      compute_phase |-> Ok, action_phase |-> Ok],
     children |-> <<>>]

\* the traces with such a node: alone, or as the only child of a node
NoAccountInputs ==
    {NoAccountNode} \cup {kind @@ [children |-> <<NoAccountNode>>] : kind \in NodeKinds}

BackendResults == FlatInputs \cup TraceInputs \cup NoAccountInputs

BlockHashes == {"roothash"}

----------------------------------------------------------------------------
\* TonapiClient.trace_transaction and get_transaction (the same body), with
\* get_block_hash; one action per answer of the backend, each running the
\* coroutine to its next await or to its end

TraceInit ==
    /\ pc = "trace"
    /\ result = None
    /\ root_txn = None
    /\ lookups = <<>>
    /\ receipt = None
    /\ raised = ""
    /\ backend_error = None

\* "not found" in str(e)
contains(msg, sub) ==
    \E i \in 1 .. (Len(msg) - Len(sub) + 1) : SubSeq(msg, i, i + Len(sub) - 1) = sub

\* every failure is reported as not found
is_not_found_any(e) == TRUE

\* if "not found" in str(e)
is_not_found(e) == contains(e, "not found")

\* the messages of the failures the backend request can raise
BackendErrors == {"entity not found", "404 Not Found", "rate limit exceeded"}

\* the failure a request raised: the method that made it, and str(e)
Failure(method, e) == Some([method |-> method, message |-> e])

\* _get raises an error whose message contains "not found": return None
TraceNotFound ==
    /\ pc = "trace"
    /\ \E e \in BackendErrors :
          /\ is_not_found(e)
          /\ backend_error' = Failure("trace_transaction", e)
    /\ pc' = "done"
    /\ receipt' = None
    /\ UNCHANGED <<result, root_txn, lookups, raised>>
    /\ UNCHANGED <<code_map, exit_vars, mint_vars, lite_vars>>

\* _get raises another error: the handler falls through, `if result` reads
\* a name that was never bound
TraceFails ==
    /\ pc = "trace"
    /\ \E e \in BackendErrors :
          /\ ~is_not_found(e)
          /\ backend_error' = Failure("trace_transaction", e)
    /\ pc' = "done"
    /\ raised' = "UnboundLocalError"
    /\ UNCHANGED <<result, root_txn, lookups, receipt>>
    /\ UNCHANGED <<code_map, exit_vars, mint_vars, lite_vars>>

\* _get returns an empty result: return None
TraceEmpty ==
    /\ pc = "trace"
    /\ pc' = "done"
    /\ result' = Some(EmptyDict)
    /\ receipt' = None
    /\ UNCHANGED <<root_txn, lookups, raised, backend_error>>
    /\ UNCHANGED <<code_map, exit_vars, mint_vars, lite_vars>>

\* the lookup made with the hash of the root transaction
block_id_is_hash(root) == root.hash

\* self.get_block_hash(root_txn.block): the block id the lookup is made with
block_id(root) == root.block

\* _get returns a trace: reconstruct it and ask for the hash of its block
TraceReturns ==
    /\ pc = "trace"
    /\ \E data \in BackendResults :
          /\ ~raises_KeyError(data)
          /\ result' = Some(data)
          /\ root_txn' = Some(from_ton_api_trace(data))
          /\ lookups' = Append(lookups, block_id(from_ton_api_trace(data)))
    /\ pc' = "block_hash"
    /\ UNCHANGED <<receipt, raised, backend_error>>
    /\ UNCHANGED <<code_map, exit_vars, mint_vars, lite_vars>>

\* _get returns a trace and its reconstruction raises: the error leaves the
\* lookup
TraceReconstructFails ==
    /\ pc = "trace"
    /\ \E data \in BackendResults :
          /\ raises_KeyError(data)
          /\ result' = Some(data)
    /\ raised' = "KeyError"
    /\ pc' = "done"
    /\ UNCHANGED <<root_txn, lookups, receipt, backend_error>>
    /\ UNCHANGED <<code_map, exit_vars, mint_vars, lite_vars>>

\* get_block_hash returns h, the root_hash of the block (None when the block
\* is empty or has no root_hash): build the receipt
BlockHashReturns ==
    /\ pc = "block_hash"
    /\ \E h \in {None} \cup {Some(b) : b \in BlockHashes} :
       \E ifaces \in ListsOf(traverse(Val(root_txn)).interfaces) :
          receipt' = Some(from_transaction(Val(root_txn), h, ifaces))
    /\ pc' = "done"
    /\ UNCHANGED <<result, root_txn, lookups, raised, backend_error>>
    /\ UNCHANGED <<code_map, exit_vars, mint_vars, lite_vars>>

\* _get of get_block_hash raises an error whose message contains "not
\* found": get_block_hash returns None and the receipt is built with it
BlockHashNotFound ==
    /\ pc = "block_hash"
    /\ \E e \in BackendErrors :
          /\ is_not_found(e)
          /\ backend_error' = Failure("get_block_hash", e)
    /\ \E ifaces \in ListsOf(traverse(Val(root_txn)).interfaces) :
          receipt' = Some(from_transaction(Val(root_txn), None, ifaces))
    /\ pc' = "done"
    /\ UNCHANGED <<result, root_txn, lookups, raised>>
    /\ UNCHANGED <<code_map, exit_vars, mint_vars, lite_vars>>

\* _get of get_block_hash raises another error: `if block` reads a name that
\* was never bound, and the error leaves the lookup
BlockHashFails ==
    /\ pc = "block_hash"
    /\ \E e \in BackendErrors :
          /\ ~is_not_found(e)
          /\ backend_error' = Failure("get_block_hash", e)
    /\ pc' = "done"
    /\ raised' = "UnboundLocalError"
    /\ UNCHANGED <<result, root_txn, lookups, receipt>>
    /\ UNCHANGED <<code_map, exit_vars, mint_vars, lite_vars>>

Next ==
    \/ TraceNotFound
    \/ TraceFails
    \/ TraceEmpty
    \/ TraceReturns
    \/ TraceReconstructFails
    \/ BlockHashReturns
    \/ BlockHashNotFound
    \/ BlockHashFails

----------------------------------------------------------------------------
\* ExitCode.translate called on its own

ExitIdle == code = None /\ tag = None

MintIdle == family = "" /\ mint_args = None /\ body = None /\ mint_pc = "idle"

\* the callers of one LiteserverClient
MaxTasks == 2

Tasks == 1 .. MaxTasks

\* a caller that is in no operation
IdleTask == [pc |-> "idle", func |-> "", outer |-> "", initialized |-> FALSE]

\* a LiteserverClient as __init__ leaves it: the balancer is not started
LiteIdle ==
    /\ inited = FALSE
    /\ tasks = [t \in Tasks |-> IdleTask]
    /\ lite_log = <<>>
    /\ lite_calls = 0

Init ==
    /\ code_map = CodeMapTable
    /\ TraceInit
    /\ ExitIdle
    /\ MintIdle
    /\ LiteIdle

Spec == Init /\ [][Next]_vars

----------------------------------------------------------------------------
\* Properties of the reconstruction and of the receipt

\* every Transaction of a tree
RECURSIVE AllNodes(_)
AllNodes(tx) ==
    {tx} \cup UNION {AllNodes(tx.children[i]) : i \in DOMAIN tx.children}

\* every trace node that was reconstructed, with the Transaction made from it
RECURSIVE Pairs(_, _)
Pairs(data, tx) ==
    {<<data, tx>>}
        \cup UNION {Pairs(data.children[i], tx.children[i]) :
                       i \in DOMAIN tx.children}

\* every node of a trace as the backend sent it
RECURSIVE InputNodes(_)
InputNodes(data) ==
    {data} \cup UNION {InputNodes(data.children[i]) :
                          i \in DOMAIN GetOr(data, "children", <<>>)}

Reconstructed == root_txn # None

Built == IF Reconstructed THEN Pairs(Val(result), Val(root_txn)) ELSE {}

Returned == pc = "done" /\ receipt # None

\* the transaction dict of a trace node
TxData(data) ==
    IF "transaction" \in DOMAIN data THEN data.transaction ELSE data

\* a raw flag of a trace node, a missing one counting as false
RawFlag(data, k) == k \in DOMAIN TxData(data) /\ TxData(data)[k]

SuppliesChildren(data) == "children" \in DOMAIN data /\ data.children # <<>>

\* C1: the final success flag of every reconstructed node is raw success and
\* not raw aborted and no error derived (a missing flag is false); a node with
\* success=true, aborted=false and two successful phases has no error and
\* success=true.
C1_SuccessIsRawAndNoError ==
    \A p \in Built :
        /\ p[2].success =
              (RawFlag(p[1], "success") /\ ~RawFlag(p[1], "aborted")
                  /\ p[2].error = None)
        /\ (p[2].error # None => ~p[2].success)
        /\ (/\ RawFlag(p[1], "success")
            /\ ~RawFlag(p[1], "aborted")
            /\ p[2].compute_phase.success
            /\ p[2].action_phase.success)
              => (p[2].error = None /\ p[2].success)

\* an error overrode raw flags that said success, the aborted flag missing
C1_Witness ==
    \E p \in Built :
        /\ RawFlag(p[1], "success")
        /\ "aborted" \notin DOMAIN TxData(p[1])
        /\ p[2].error # None
        /\ ~p[2].success

\* C2: in every reconstructed tree a node whose final success is false has no
\* children, whatever children the trace supplied for it.
C2_FailedNodesAreLeaves ==
    \A p \in Built : ~p[2].success => p[2].children = <<>>

\* a failed node below the root for which the trace supplied children
C2_Witness ==
    \E p \in Built :
        /\ p[1] # Val(result)
        /\ SuppliesChildren(p[1])
        /\ ~p[2].success
        /\ p[2].children = <<>>

\* the skip reason normalised, None staying None
NormalizedReason(o) == IF o = None THEN None ELSE Some(normalize(Val(o)))

\* the error the precedence rule of C3 gives a node, as the claim words it
C3_ClaimedError(tx) ==
    IF tx.compute_phase.skipped
    THEN NormalizedReason(tx.compute_phase.skip_reason)
    ELSE IF ~tx.compute_phase.success
         THEN translate(tx.compute_phase.exit_code)
         ELSE IF ~tx.action_phase.success
              THEN translate(tx.action_phase.exit_code)
              ELSE None

\* C3 as claimed: a skipped compute phase always gives the normalised skip
\* reason as the error.
C3_Original == \A p \in Built : p[2].error = C3_ClaimedError(p[2])

\* C3: the error is derived with strict precedence. Compute phase skipped: the
\* skip reason lowercased with spaces replaced by underscores ("No state"
\* gives "no_state") when the reason is non-empty, "compute_phase_skipped"
\* when it is empty or None; else compute phase unsuccessful: the translated
\* compute exit code; else action phase unsuccessful: the translated action
\* exit code; else None. The action phase is consulted only in the third case.
C3_ErrorPrecedence ==
    \A p \in Built :
        LET tx == p[2] IN
        /\ tx.error =
              IF tx.compute_phase.skipped /\ ~Truthy(tx.compute_phase.skip_reason)
              THEN Some("compute_phase_skipped")
              ELSE C3_ClaimedError(tx)
        /\ (tx.compute_phase.skipped
              /\ tx.compute_phase.skip_reason = Some(Chars_no_state))
              => tx.error = Some("no_state")

\* compute phase skipped with "No state" while the action phase failed with a
\* code, and a compute failure hiding an action failure
C3_Witness ==
    /\ Reconstructed
    /\ LET tx == Val(root_txn) IN
       /\ tx.compute_phase.skipped
       /\ tx.compute_phase.skip_reason = Some(Chars_no_state)
       /\ ~tx.action_phase.skipped
       /\ ~tx.action_phase.success
       /\ tx.action_phase.exit_code = Some(37)
       /\ tx.error = Some("no_state")

\* the Transactions of a tree that failed with an error
FailedWithError(tx) ==
    {n \in AllNodes(tx) : ~n.success /\ n.error # None /\ Val(n.error) # ""}

\* C4: the receipt's success is true if and only if no error was collected
\* over the whole tree of the root.
C4_SuccessIffNoErrors ==
    Returned =>
        /\ Val(receipt).success = (FailedWithError(Val(root_txn)) = {})
        /\ Val(receipt).success = (Val(receipt).error = Some(<<>>))

\* a receipt that fails only because of a node below the root
C4_Witness ==
    /\ Returned
    /\ ~Val(receipt).success
    /\ Val(root_txn).success
    /\ FailedWithError(Val(root_txn)) # {}

\* a trace node that succeeds: flags and both phases
NodeSucceeds(data) ==
    LET tx_data == TxData(data)
        ok(k) == /\ k \in DOMAIN tx_data
                 /\ ~GetOr(tx_data[k], "skipped", FALSE)
                 /\ GetOr(tx_data[k], "success", FALSE)
    IN  /\ RawFlag(data, "success")
        /\ ~RawFlag(data, "aborted")
        /\ ok("compute_phase")
        /\ ok("action_phase")

\* the root has two or more children and every node of the trace succeeds
C5_Case ==
    /\ Returned
    /\ Len(GetOr(Val(result), "children", <<>>)) >= 2
    /\ \A d \in InputNodes(Val(result)) : NodeSucceeds(d)

\* C5 as claimed: the error attribute of such a receipt is None.
C5_Original ==
    C5_Case =>
        /\ Val(receipt).success
        /\ Val(receipt).batch_transaction
        /\ Val(receipt).error = None

\* C5: for a trace whose root and children all succeed, the root having two
\* or more children, the receipt has success=true, batch_transaction=true and
\* its error attribute is the empty list.
C5_AllSucceed ==
    C5_Case =>
        /\ Val(receipt).success
        /\ Val(receipt).batch_transaction
        /\ Val(receipt).error = Some(<<>>)

\* the root has three children, all succeeding
C5_Witness ==
    /\ C5_Case
    /\ Len(Val(result).children) = 3
    /\ Len(Val(root_txn).children) = 3

\* the compute phase of the root ran successfully and its action phase
\* failed with an exit code
C6_Case ==
    /\ Reconstructed
    /\ LET tx == Val(root_txn) IN
       /\ ~tx.compute_phase.skipped
       /\ tx.compute_phase.success
       /\ ~tx.action_phase.skipped
       /\ ~tx.action_phase.success
       /\ tx.action_phase.exit_code # None

\* C6: a root whose compute phase succeeded and whose action phase failed
\* with exit code c has error translate(c), whatever its raw flags; its
\* receipt has success=false and error [translate(c)]; 37 gives
\* "not_enough_toncoin".
C6_ActionFailure ==
    C6_Case =>
        LET tx == Val(root_txn)
            c == tx.action_phase.exit_code
        IN  /\ tx.error = translate(c)
            /\ tx.error # None
            /\ ~tx.success
            /\ c = Some(37) => tx.error = Some("not_enough_toncoin")
            /\ Returned =>
                  /\ ~Val(receipt).success
                  /\ Val(receipt).error = Some(<<Val(translate(c))>>)
                  /\ c = Some(37) =>
                        Val(receipt).error = Some(<<"not_enough_toncoin">>)

\* raw flags say success, the action phase failed with 37, the receipt is out
C6_Witness ==
    /\ C6_Case
    /\ Returned
    /\ RawFlag(Val(result), "success")
    /\ ~RawFlag(Val(result), "aborted")
    /\ Val(root_txn).action_phase.exit_code = Some(37)
    /\ Val(receipt).error = Some(<<"not_enough_toncoin">>)

\* C7: batch_transaction is true if and only if some node of the
\* reconstructed tree, the root or a descendant, has at least 2 children.
C7_BatchIffFanOut ==
    Returned =>
        Val(receipt).batch_transaction =
            (\E n \in AllNodes(Val(root_txn)) : Len(n.children) >= 2)

\* only a descendant of the root has two children
C7_Witness ==
    /\ Returned
    /\ Val(receipt).batch_transaction
    /\ Len(Val(root_txn).children) = 1
    /\ Len(Val(root_txn).children[1].children) = 2

----------------------------------------------------------------------------
\* ExitCode.translate called on its own

MaxCode == 150

Codes == {None} \cup {Some(c) : c \in (0 - MaxCode) .. MaxCode}

TraceIdle ==
    /\ result = None
    /\ root_txn = None
    /\ lookups = <<>>
    /\ receipt = None
    /\ raised = ""
    /\ backend_error = None

InitTranslate ==
    /\ code_map = CodeMapTable
    /\ pc = "translate"
    /\ code \in Codes
    /\ tag = None
    /\ TraceIdle
    /\ MintIdle
    /\ LiteIdle

Translate ==
    /\ pc = "translate"
    /\ tag' = translate(code)
    /\ pc' = "translated"
    /\ UNCHANGED <<code_map, code, result, root_txn, lookups, receipt, raised,
                   backend_error, mint_vars, lite_vars>>

NextTranslate == Translate

SpecTranslate == InitTranslate /\ [][NextTranslate]_vars

\* C8: ExitCode.translate is total: a code of the table gives its tag, 13 and
\* -14 both "out_of_gas"; any other integer gives "unknown_exit_code_<code>";
\* None gives None; nothing is raised and the table is left as it was.
C8_TranslateTotal ==
    /\ code_map = CodeMapTable
    /\ raised = ""
    /\ pc = "translated" =>
          /\ code = None => tag = None
          /\ (code # None /\ Val(code) \in CodeMapKeys)
                => tag = Some(CodeMapTable[Val(code)])
          /\ (code # None /\ Val(code) \notin CodeMapKeys)
                => tag = Some("unknown_exit_code_" \o ToString(Val(code)))
          /\ code \in {Some(13), Some(0 - 14)} => tag = Some("out_of_gas")
          /\ code = Some(37) => tag = Some("not_enough_toncoin")
          /\ code = Some(15) => tag = Some("unknown_exit_code_15")
          /\ code = Some(0 - 13) => tag = Some("unknown_exit_code_-13")

\* -14 was translated, a code that only the negative side of the table holds
C8_Witness == pc = "translated" /\ code = Some(0 - 14) /\ tag = Some("out_of_gas")

----------------------------------------------------------------------------
\* The batch-mint builders called on their own

MaxItems == 3

Contents == {"content_a", "content_b"}

Owners == {"EQ_owner_a", "EQ_owner_b"}

\* the authority and revoked_at of a soulbound item: both left out, or both given
SoulboundExtras == {<<None, None>>, <<Some("EQ_authority"), Some(1700000000)>>}

StandardItems == {<<c, o>> : c \in Contents, o \in Owners}

SoulboundItems ==
    {<<c, o, x[1], x[2]>> : c \in Contents, o \in Owners, x \in SoulboundExtras}

\* the lists over S of at most n elements
ListsUpTo(S, n) == UNION {[1 .. k -> S] : k \in 0 .. n}

FromIndexes == {0, 5}

QueryIds == {0, 7}

Families ==
    StandardBaseFamilies \cup SoulboundBaseFamilies
        \cup {"SweetCollectionStandard", "SweetCollectionSoulbound"}

\* the argument lists of build_batch_mint_body for a class
BatchArgs(cls) ==
    IF cls = "SweetCollectionStandard"
    THEN {[addresses |-> a, amount_per_one |-> 20000000, query_id |-> q] :
             a \in ListsUpTo(Owners, MaxItems), q \in QueryIds}
    ELSE {[data |-> d, from_index |-> k, amount_per_one |-> 20000000,
           query_id |-> q] :
             d \in ListsUpTo(IF cls \in StandardBaseFamilies
                             THEN StandardItems ELSE SoulboundItems, MaxItems),
             k \in FromIndexes, q \in QueryIds}

\* the argument lists of build_mint_body for a class
MintArgs(cls) ==
    CASE cls \in StandardBaseFamilies ->
            {[index |-> k, owner_address |-> o, amount |-> 20000000,
              query_id |-> q] :
                k \in FromIndexes, o \in Owners, q \in QueryIds}
      [] cls = "SweetCollectionStandard" ->
            {[owner_address |-> o, amount |-> 20000000, query_id |-> q,
              admin_mint |-> a] :
                o \in Owners, q \in QueryIds, a \in BOOLEAN}
      [] cls \in SoulboundBaseFamilies ->
            {[index |-> k, owner_address |-> i[2], content |-> i[1],
              authority_address |-> i[3], revoked_at |-> OrElse(i[4], 0),
              amount |-> 20000000, query_id |-> q] :
                k \in FromIndexes, i \in SoulboundItems, q \in QueryIds}
      [] cls = "SweetCollectionSoulbound" ->
            {[owner_address |-> o, content |-> c, amount |-> 20000000,
              query_id |-> q] :
                o \in Owners, c \in Contents, q \in QueryIds}

\* the argument lists of build_return_balance
ReturnBalanceArgs == {[query_id |-> q] : q \in QueryIds}

\* the calls a program can make: the builder, the class and the arguments
MintCalls ==
    UNION {{<<"call", cls, a>> : a \in BatchArgs(cls)}
              \cup {<<"call_mint", cls, a>> : a \in MintArgs(cls)}
              \cup (IF cls \in ReturnBalanceFamilies
                    THEN {<<"call_return_balance", cls, a>> :
                             a \in ReturnBalanceArgs}
                    ELSE {}) : cls \in Families}

InitMint ==
    /\ code_map = CodeMapTable
    /\ pc = "idle"
    /\ ExitIdle
    /\ TraceIdle
    /\ LiteIdle
    /\ \E c \in MintCalls :
          /\ mint_pc = c[1]
          /\ family = c[2]
          /\ mint_args = Some(c[3])
    /\ body = None

BuildBatchMintBody ==
    /\ mint_pc = "call"
    /\ LET r == build_batch_mint_body(family, Val(mint_args)) IN
       /\ body' = r.cell
       /\ raised' = r.raised
       /\ mint_pc' = IF r.raised = "" THEN "returned" ELSE "raised"
    /\ UNCHANGED <<code_map, exit_vars, pc, result, root_txn, lookups, receipt,
                   backend_error, family, mint_args, lite_vars>>

BuildMintBody ==
    /\ mint_pc = "call_mint"
    /\ LET r == build_mint_body(family, Val(mint_args)) IN
       /\ body' = r.cell
       /\ raised' = r.raised
       /\ mint_pc' = "mint_returned"
    /\ UNCHANGED <<code_map, exit_vars, pc, result, root_txn, lookups, receipt,
                   backend_error, family, mint_args, lite_vars>>

BuildReturnBalance ==
    /\ mint_pc = "call_return_balance"
    /\ LET r == build_return_balance(family, Val(mint_args)) IN
       /\ body' = r.cell
       /\ raised' = r.raised
       /\ mint_pc' = "balance_returned"
    /\ UNCHANGED <<code_map, exit_vars, pc, result, root_txn, lookups, receipt,
                   backend_error, family, mint_args, lite_vars>>

NextMint ==
    \/ BuildBatchMintBody
    \/ BuildMintBody
    \/ BuildReturnBalance

SpecMint == InitMint /\ [][NextMint]_vars

\* C9: SweetCollectionSoulbound.build_batch_mint_body raises on every call,
\* whatever its arguments (an empty data list included), returns no Cell and
\* changes nothing else.
C9_SweetSoulboundBatchRaises ==
    (family = "SweetCollectionSoulbound" /\ mint_pc \in {"returned", "raised"}) =>
        /\ mint_pc = "raised"
        /\ raised = "NotImplementedError"
        /\ body = None
        /\ code_map = CodeMapTable

\* the call was made with an empty data list
C9_Witness ==
    /\ family = "SweetCollectionSoulbound"
    /\ mint_pc = "raised"
    /\ Val(mint_args).data = <<>>

\* the dictionary of a batch-mint body
BodyDict(b) == b.refs[1]

\* the payload cell of a dictionary entry: the reference behind the amount
Payload(entry) == entry.refs[1]

C10_Case ==
    /\ family \in StandardBaseFamilies \cup SoulboundBaseFamilies
    /\ mint_pc \in {"returned", "raised"}

\* C10: the batch-mint builders of the standard and soulbound base families
\* give, for N items and from_index = k, a dictionary of exactly N entries
\* whose keys are k .. k+N-1, the entry at k+i built from the i-th item.
C10_BatchKeys ==
    C10_Case =>
        /\ mint_pc = "returned"
        /\ LET args == Val(mint_args)
               n == Len(args.data)
               k == args.from_index
               d == BodyDict(Val(body)).map
           IN  /\ DOMAIN d = k .. (k + n - 1)
               /\ Cardinality(DOMAIN d) = n
               /\ \A i \in 0 .. (n - 1) :
                     /\ Payload(d[k + i]).bits[1] = <<"address", 267, args.data[i + 1][2]>>
                     /\ serialize_content(args.data[i + 1][1])
                           \in SeqToSet(Payload(d[k + i]).refs)

\* three items whose owners and contents differ, from_index 5
C10_Witness ==
    /\ C10_Case
    /\ mint_pc = "returned"
    /\ Val(mint_args).from_index = 5
    /\ Len(Val(mint_args).data) = 3
    /\ Val(mint_args).data[1][2] # Val(mint_args).data[2][2]
    /\ Val(mint_args).data[2][1] # Val(mint_args).data[3][1]
    /\ DOMAIN BodyDict(Val(body)).map = {5, 6, 7}

\* a builder that returned a body: every class but SweetCollectionSoulbound
C11_Case == mint_pc = "returned"

\* the items of the call, whatever the parameter is called
ItemsOf(args) ==
    IF "addresses" \in DOMAIN args THEN args.addresses ELSE args.data

\* a dictionary value as the base families lay it out: the amount, then one
\* reference to a payload that holds the owner and a reference to the content
BaseEntry(entry, item, amount) ==
    /\ entry.bits = <<<<"coins", 0, amount>>>>
    /\ Len(entry.refs) = 1
    /\ Payload(entry).bits[1] = <<"address", 267, item[2]>>
    /\ serialize_content(item[1]) \in SeqToSet(Payload(entry).refs)

\* C11 as claimed: every provided batch-mint builder takes a from_index, keys
\* its dictionary by from_index + offset, stores the amount and the nested
\* content/owner references per item, and uses 64-bit keys.
C11_Original ==
    C11_Case =>
        LET args == Val(mint_args)
            items == ItemsOf(args)
            d == BodyDict(Val(body))
        IN  /\ d.key_size = 64
            /\ "from_index" \in DOMAIN args
            /\ DOMAIN d.map = args.from_index .. (args.from_index + Len(items) - 1)
            /\ \A i \in 1 .. Len(items) :
                  BaseEntry(d.map[args.from_index + i - 1], items[i],
                            args.amount_per_one)

\* C11: every provided batch-mint builder uses 64-bit keys. Those of the
\* standard and soulbound base families key the dictionary by from_index +
\* offset and map each key to a sub-cell holding the amount and a reference to
\* the payload with the owner and the content reference.
\* SweetCollectionStandard takes no from_index: its keys are the offsets
\* 0 .. N-1, and each value holds one reference to a cell that holds a
\* reference to the owner cell and then the amount, with no content.
C11_BatchLayout ==
    C11_Case =>
        LET args == Val(mint_args)
            items == ItemsOf(args)
            d == BodyDict(Val(body))
        IN  /\ d.key_size = 64
            /\ family # "SweetCollectionStandard" =>
                  /\ DOMAIN d.map =
                        args.from_index .. (args.from_index + Len(items) - 1)
                  /\ \A i \in 1 .. Len(items) :
                        BaseEntry(d.map[args.from_index + i - 1], items[i],
                                  args.amount_per_one)
            /\ family = "SweetCollectionStandard" =>
                  /\ "from_index" \notin DOMAIN args
                  /\ DOMAIN d.map = 0 .. (Len(items) - 1)
                  /\ \A i \in 1 .. Len(items) :
                        LET entry == d.map[i - 1] IN
                        /\ entry.bits = <<>>
                        /\ Len(entry.refs) = 1
                        /\ entry.refs[1].bits = <<<<"coins", 0, args.amount_per_one>>>>
                        /\ entry.refs[1].refs =
                              <<[bits |-> <<<<"address", 267, items[i]>>>>,
                                 refs |-> <<>>]>>

\* SweetCollectionStandard built a dictionary for three owners
C11_Witness ==
    /\ C11_Case
    /\ family = "SweetCollectionStandard"
    /\ Len(Val(mint_args).addresses) = 3
    /\ Val(mint_args).addresses[1] # Val(mint_args).addresses[2]
    /\ DOMAIN BodyDict(Val(body)).map = {0, 1, 2}

\* the opcode the operation that was called is documented to carry
C12_Opcode ==
    CASE mint_pc = "returned" -> BATCH_NFT_MINT_OPCODE
      [] mint_pc = "balance_returned" -> RETURN_COLLECTION_BALANCE_OPCODE
      [] mint_pc = "mint_returned" ->
            IF family = "SweetCollectionStandard" /\ Val(mint_args).admin_mint
            THEN ADMIN_NFT_MINT_OPCODE
            ELSE NFT_MINT_OPCODE

\* C12: every body a builder returns starts with the operation's opcode in 32
\* bits followed by the query_id in 64 bits; SweetCollectionStandard's
\* build_mint_body carries the administrative opcode exactly when admin_mint
\* is true and the normal mint opcode otherwise.
C12_OpcodeThenQueryId ==
    body # None =>
        /\ Len(Val(body).bits) >= 2
        /\ Val(body).bits[1] = <<"uint", 32, C12_Opcode>>
        /\ Val(body).bits[2] = <<"uint", 64, Val(mint_args).query_id>>

\* an administrative mint of SweetCollectionStandard with a query id of its own
C12_Witness ==
    /\ mint_pc = "mint_returned"
    /\ family = "SweetCollectionStandard"
    /\ Val(mint_args).admin_mint
    /\ Val(mint_args).query_id = 7
    /\ Val(body).bits[1][3] = ADMIN_NFT_MINT_OPCODE

\* a request to the backend has failed
BackendFailed == backend_error # None

\* C13 as claimed: a backend failure whose message contains "not found" makes
\* the call return None (get_block_hash returning None leaves its caller with
\* a receipt whose block_hash is None); any other backend failure reaches the
\* caller itself, and the call returns neither None nor a receipt.
C13_Original ==
    BackendFailed =>
        LET f == Val(backend_error) IN
        IF contains(f.message, "not found")
        THEN /\ raised = ""
             /\ f.method = "trace_transaction" => receipt = None
             /\ f.method = "get_block_hash" =>
                   receipt # None /\ Val(receipt).block_hash = None
        ELSE /\ raised = f.message
             /\ receipt = None

\* what the code does with a backend failure: "not found" gives None; any
\* other failure is caught and dropped, and the caller gets the
\* UnboundLocalError of the next statement in its place
C13_FailureOutcome ==
    BackendFailed =>
        LET f == Val(backend_error) IN
        /\ pc = "done"
        /\ IF contains(f.message, "not found")
           THEN /\ raised = ""
                /\ f.method = "trace_transaction" => receipt = None
                /\ f.method = "get_block_hash" =>
                      receipt # None /\ Val(receipt).block_hash = None
           ELSE /\ raised = "UnboundLocalError"
                /\ receipt = None

\* the trace request failed with a rate limit
C13_Witness ==
    /\ BackendFailed
    /\ Val(backend_error) =
          [method |-> "trace_transaction", message |-> "rate limit exceeded"]
    /\ raised = "UnboundLocalError"

\* the backend answered a trace every node of which carries an account
C14_Case ==
    /\ result # None
    /\ Val(result) # EmptyDict
    /\ \A n \in InputNodes(Val(result)) : "account" \in DOMAIN TxData(n)

\* C14: on-chain failures never raise. When every node of the trace carries
\* an account, whatever its flags, phases and children, the reconstruction
\* gives a Transaction and, once the block hash is known, the collapse gives a
\* receipt; nothing is raised but a failure of the block hash request, and a
\* failed node shows in success and error alone.
C14_OnChainFailuresNeverRaise ==
    C14_Case =>
        /\ Reconstructed
        /\ raised # "" => (backend_error # None /\ receipt = None)
        /\ (pc = "done" /\ raised = "") =>
              /\ receipt # None
              /\ Val(receipt).raw_transaction = Val(root_txn)
              /\ Val(receipt).success = (Val(Val(receipt).error) = <<>>)
        /\ \A p \in Built : p[2].error # None => ~p[2].success

\* a trace whose root failed with an exit code that no table knows gave a
\* receipt that says so
C14_Witness ==
    /\ C14_Case
    /\ pc = "done"
    /\ raised = ""
    /\ receipt # None
    /\ ~Val(receipt).success
    /\ Val(Val(receipt).error) = <<"unknown_exit_code_999">>

\* the interfaces of the nodes of a Transaction tree
TreeInterfaces(tx) == UNION {SeqToSet(n.interfaces) : n \in AllNodes(tx)}

\* C15: the receipt's interfaces are the union of the interface lists of
\* every node of the Transaction tree, failed leaves included, each interface
\* once, and None when no node has an interface.
C15_InterfacesUnion ==
    Returned =>
        LET u == TreeInterfaces(Val(root_txn))
            i == Val(receipt).interfaces
        IN  IF u = {}
            THEN i = None
            ELSE /\ i # None
                 /\ SeqToSet(Val(i)) = u
                 /\ Len(Val(i)) = Cardinality(u)

\* a tree of three or more nodes where a node reports wallet_v5r1 and a
\* failed leaf reports nft_item
C15_Witness ==
    /\ Returned
    /\ \E n \in AllNodes(Val(root_txn)) :
          /\ stops_at(n)
          /\ n.interfaces = <<"nft_item">>
    /\ Cardinality({n \in AllNodes(Val(root_txn)) :
                       n.interfaces = <<"wallet_v5r1">>}) >= 1
    /\ Cardinality(AllNodes(Val(root_txn))) >= 3
    /\ Val(Val(receipt).interfaces) = <<"nft_item", "wallet_v5r1">>

\* the fetch reported not-found, or returned an empty result
C16_NothingFetched ==
    \/ backend_error # None /\ Val(backend_error).method = "trace_transaction"
    \/ result = Some(EmptyDict)

\* C16: the block hash lookup starts only after the fetch has returned and the
\* root Transaction has been reconstructed, is made with the root's block id,
\* happens at most once per call, and never happens when the fetch reported
\* not-found or returned an empty result.
C16_LookupAfterReconstruction ==
    /\ Len(lookups) <= 1
    /\ lookups # <<>> =>
          /\ pc \in {"block_hash", "done"}
          /\ result # None
          /\ Reconstructed
          /\ Val(root_txn) = from_ton_api_trace(Val(result))
          /\ lookups = <<GetOr(TxData(Val(result)), "block", "")>>
    /\ C16_NothingFetched => lookups = <<>>
    /\ pc = "trace" => lookups = <<>>

\* a trace of several nodes was fetched and the lookup made once, for the
\* block of its root
C16_Witness ==
    /\ pc = "done"
    /\ receipt # None
    /\ Val(root_txn).children # <<>>
    /\ lookups = <<"(0,8000000000000000,2)">>

----------------------------------------------------------------------------
\* LiteserverClient. A caller is a coroutine; what it runs between two awaits
\* that suspend is one step. LiteBalancer is pytoniq's: start_up leaves
\* inited true when it returns, close_all leaves it false.

MaxOps == 3

\* the operations wrapped by require_pytoniq
Ops == {"run_get_method", "send_message", "get_raw_account", "get_account_balance"}

\* the balancer method each of them awaits
BalancerMethod(func) ==
    CASE func = "run_get_method" -> "run_get_method"
      [] func = "send_message" -> "raw_send_message"
      [] func = "get_raw_account" -> "raw_get_account_state"

\* initialize_client starting the balancer whatever its state
needs_start_up_always(ini) == TRUE

\* initialize_client: `if not self.client.inited`
needs_start_up(ini) == ~ini

\* close_client: `if self.client.inited`
needs_close_all(ini) == ini

\* a call made on the balancer: by whom, inside which operation, with inited
\* as it was, and whether initialize_client had returned in the wrapper
Called(method, t, func, ini, initialized) ==
    [method |-> method, task |-> t, func |-> func, inited |-> ini,
     initialized |-> initialized]

RECURSIVE wrapper(_, _, _, _, _)
RECURSIVE run_func(_, _, _, _, _)

\* the wrapper of require_pytoniq from its entry to its first suspension:
\* pytoniq is available (the constructor has checked it), initialize_client
\* suspends in start_up or returns at once, and then func runs
wrapper(t, func, outer, ini, log) ==
    IF needs_start_up(ini)
    THEN [task |-> [pc |-> "start_up", func |-> func, outer |-> outer,
                    initialized |-> FALSE],
          log |-> Append(log, Called("start_up", t, func, ini, FALSE))]
    ELSE run_func(t, func, outer, ini, log)

\* func after initialize_client has returned: get_account_balance calls the
\* wrapped get_raw_account, the others await their balancer method
run_func(t, func, outer, ini, log) ==
    IF func = "get_account_balance"
    THEN wrapper(t, "get_raw_account", func, ini, log)
    ELSE [task |-> [pc |-> "balancer", func |-> func, outer |-> outer,
                    initialized |-> TRUE],
          log |-> Append(log, Called(BalancerMethod(func), t, func, ini, TRUE))]

AllIdle == \A t \in Tasks : tasks[t].pc = "idle"

\* a caller calls one of the wrapped operations
LiteCall(t) ==
    /\ tasks[t].pc = "idle"
    /\ lite_calls < MaxOps
    /\ \E func \in Ops :
          LET r == wrapper(t, func, "", inited, lite_log) IN
          /\ tasks' = [tasks EXCEPT ![t] = r.task]
          /\ lite_log' = r.log
    /\ lite_calls' = lite_calls + 1
    /\ UNCHANGED inited
    /\ UNCHANGED <<code_map, exit_vars, trace_vars, mint_vars>>

\* start_up returns: initialize_client returns and func runs
StartUpReturns(t) ==
    /\ tasks[t].pc = "start_up"
    /\ inited' = TRUE
    /\ LET r == run_func(t, tasks[t].func, tasks[t].outer, TRUE, lite_log) IN
       /\ tasks' = [tasks EXCEPT ![t] = r.task]
       /\ lite_log' = r.log
    /\ UNCHANGED lite_calls
    /\ UNCHANGED <<code_map, exit_vars, trace_vars, mint_vars>>

\* start_up raises: the error leaves the operation, the balancer is not inited
StartUpFails(t) ==
    /\ tasks[t].pc = "start_up"
    /\ tasks' = [tasks EXCEPT ![t] = IdleTask]
    /\ UNCHANGED <<inited, lite_log, lite_calls>>
    /\ UNCHANGED <<code_map, exit_vars, trace_vars, mint_vars>>

\* the balancer method returns or raises: the operation is over
BalancerReturns(t) ==
    /\ tasks[t].pc = "balancer"
    /\ tasks' = [tasks EXCEPT ![t] = IdleTask]
    /\ UNCHANGED <<inited, lite_log, lite_calls>>
    /\ UNCHANGED <<code_map, exit_vars, trace_vars, mint_vars>>

\* a caller calls close_client on a balancer that is inited
CloseClient(t) ==
    /\ tasks[t].pc = "idle"
    /\ lite_calls < MaxOps
    /\ needs_close_all(inited)
    /\ tasks' = [tasks EXCEPT ![t] = [pc |-> "close_all", func |-> "close_client",
                                      outer |-> "", initialized |-> FALSE]]
    /\ lite_log' = Append(lite_log,
                          Called("close_all", t, "close_client", inited, FALSE))
    /\ lite_calls' = lite_calls + 1
    /\ UNCHANGED inited
    /\ UNCHANGED <<code_map, exit_vars, trace_vars, mint_vars>>

\* a caller calls close_client on a balancer that is not inited: nothing
CloseClientIdle(t) ==
    /\ tasks[t].pc = "idle"
    /\ lite_calls < MaxOps
    /\ ~needs_close_all(inited)
    /\ lite_calls' = lite_calls + 1
    /\ UNCHANGED <<inited, tasks, lite_log>>
    /\ UNCHANGED <<code_map, exit_vars, trace_vars, mint_vars>>

\* close_all returns
CloseAllReturns(t) ==
    /\ tasks[t].pc = "close_all"
    /\ inited' = FALSE
    /\ tasks' = [tasks EXCEPT ![t] = IdleTask]
    /\ UNCHANGED <<lite_log, lite_calls>>
    /\ UNCHANGED <<code_map, exit_vars, trace_vars, mint_vars>>

InitLite ==
    /\ code_map = CodeMapTable
    /\ pc = "idle"
    /\ ExitIdle
    /\ TraceIdle
    /\ MintIdle
    /\ LiteIdle

\* the operations are called one after the other: a caller starts one only
\* when no other is in progress
NextLite ==
    \E t \in Tasks :
        \/ AllIdle /\ LiteCall(t)
        \/ AllIdle /\ CloseClient(t)
        \/ AllIdle /\ CloseClientIdle(t)
        \/ StartUpReturns(t)
        \/ StartUpFails(t)
        \/ BalancerReturns(t)
        \/ CloseAllReturns(t)

SpecLite == InitLite /\ [][NextLite]_vars

\* the balancer methods the wrapped operations await
BalancerMethods == {"run_get_method", "raw_send_message", "raw_get_account_state"}

\* C17: every wrapped operation calls the underlying balancer only after
\* initialize_client has returned in its wrapper; in a sequential series of
\* operations start_up is invoked only when the balancer is not inited, and
\* close_client invokes close_all only when it is inited.
C17_InitializedBeforeUse ==
    \A i \in DOMAIN lite_log :
        LET c == lite_log[i] IN
        /\ c.method \in BalancerMethods => c.initialized /\ c.inited
        /\ c.method = "start_up" => ~c.inited
        /\ c.method = "close_all" => c.inited

\* get_account_balance on a fresh client, then close_client, then
\* send_message: two start_ups, the second after the close
C17_Witness ==
    /\ AllIdle
    /\ Len(lite_log) = 5
    /\ lite_log[1].method = "start_up" /\ lite_log[1].func = "get_account_balance"
    /\ lite_log[2].method = "raw_get_account_state"
    /\ lite_log[3].method = "close_all"
    /\ lite_log[4].method = "start_up"
    /\ lite_log[5].method = "raw_send_message"

\* the phase data of a node under a key, and whether it carries anything: a
\* missing key and an empty object both carry nothing
C18_NoPhaseData(tx_data, k) == k \notin DOMAIN tx_data \/ tx_data[k] = EmptyDict

\* the rule of C18 for one phase: data is the node's transaction data, k the
\* key of the phase, r the PhaseResult the Transaction holds
C18_Rule(tx_data, k, r) ==
    IF C18_NoPhaseData(tx_data, k)
    THEN r = [success |-> FALSE, skipped |-> TRUE,
              skip_reason |-> Some(missing_phase_info), exit_code |-> None]
    ELSE LET phase == tx_data[k] IN
         IF "skipped" \in DOMAIN phase /\ phase.skipped
         THEN /\ r.skipped /\ ~r.success /\ r.exit_code = None
              /\ "skip_reason" \in DOMAIN phase => r.skip_reason = phase.skip_reason
              /\ "skip_reason" \notin DOMAIN phase =>
                    r.skip_reason = Some(skipped_default)
         ELSE /\ ~r.skipped /\ r.skip_reason = None
              /\ r.success = ("success" \in DOMAIN phase /\ phase.success)
              /\ "exit_code" \in DOMAIN phase => r.exit_code = Some(phase.exit_code)
              /\ ("exit_code" \notin DOMAIN phase /\ "result_code" \in DOMAIN phase)
                    => r.exit_code = Some(phase.result_code)
              /\ ("exit_code" \notin DOMAIN phase /\ "result_code" \notin DOMAIN phase)
                    => r.exit_code = None

\* C18: an absent phase becomes PhaseResult(success=false, skipped=true,
\* skip_reason="missing_phase_info", exit_code=None); a phase marked skipped
\* becomes a skipped result with the backend's skip_reason, or "skipped" when
\* none is supplied; otherwise success and exit code come from the phase data,
\* exit_code whenever it is present and result_code only when it is absent.
\* The compute phase and the action phase are parsed by the same rule.
C18_PhaseParsing ==
    \A p \in Built :
        /\ C18_Rule(TxData(p[1]), "compute_phase", p[2].compute_phase)
        /\ C18_Rule(TxData(p[1]), "action_phase", p[2].action_phase)

\* a node whose compute phase carries both an exit_code and a result_code and
\* whose action phase is absent
C18_Witness ==
    \E p \in Built :
        /\ "compute_phase" \in DOMAIN TxData(p[1])
        /\ TxData(p[1]).compute_phase =
              [success |-> FALSE, exit_code |-> 37, result_code |-> 13]
        /\ p[2].compute_phase.exit_code = Some(37)
        /\ "action_phase" \notin DOMAIN TxData(p[1])
        /\ p[2].action_phase.skip_reason = Some(missing_phase_info)

RECURSIVE C19_Expected(_)
RECURSIVE C19_ExpectedForest(_)

\* the input nodes all of whose proper ancestors are derived-successful, in
\* pre-order, starting from a node that is one of them
C19_Expected(data) ==
    <<data>> \o (IF from_ton_api_trace(data).success
                 THEN C19_ExpectedForest(GetOr(data, "children", <<>>))
                 ELSE <<>>)

C19_ExpectedForest(children) ==
    IF children = <<>> THEN <<>>
    ELSE C19_Expected(Head(children)) \o C19_ExpectedForest(Tail(children))

RECURSIVE PreOrder(_)
RECURSIVE PreOrderForest(_)

\* the Transactions of a tree in pre-order
PreOrder(tx) == <<tx>> \o PreOrderForest(tx.children)

PreOrderForest(children) ==
    IF children = <<>> THEN <<>>
    ELSE PreOrder(Head(children)) \o PreOrderForest(Tail(children))

\* C19: from_ton_api_trace gives exactly one Transaction for each input node
\* all of whose proper ancestors are derived-successful and none for any
\* other; a successful node has one child Transaction per supplied child, in
\* the supplied order (a failed node has none).
C19_OneTransactionPerReachedNode ==
    Reconstructed =>
        LET e == C19_Expected(Val(result))
            t == PreOrder(Val(root_txn))
        IN  /\ Len(t) = Len(e)
            /\ \A i \in DOMAIN t :
                  LET supplied == GetOr(e[i], "children", <<>>) IN
                  /\ t[i].account = TxData(e[i]).account.address
                  /\ t[i].interfaces = derive_interfaces(e[i], t[i].error)
                  /\ IF t[i].success
                     THEN /\ Len(t[i].children) = Len(supplied)
                          /\ \A j \in DOMAIN supplied :
                                t[i].children[j] = from_ton_api_trace(supplied[j])
                     ELSE t[i].children = <<>>

\* a trace of four nodes of which three are reconstructed: the root succeeds
\* and has two children that differ, the first failed with a child of its own
C19_Witness ==
    /\ Reconstructed
    /\ Cardinality(DOMAIN PreOrder(Val(root_txn))) = 3
    /\ Len(Val(result).children) = 2
    /\ Len(Val(result).children[1].children) = 1
    /\ ~Val(root_txn).children[1].success
    /\ Val(root_txn).children[2].success
    /\ Val(root_txn).children[1].interfaces = <<"nft_item">>
    /\ Val(root_txn).children[2].interfaces = <<"wallet_v5r1">>

\* a failed node that carries an error
C20_Failed(tx) == ~tx.success /\ tx.error # None /\ Val(tx.error) # ""

\* the error tags of such nodes, in the pre-order of the tree
C20_Tags(tx) ==
    LET failed == SelectSeq(PreOrder(tx), C20_Failed) IN
    [i \in DOMAIN failed |-> Val(failed[i].error)]

\* C20: the receipt's error list holds exactly the error tags of the failed
\* nodes that carry an error, one entry per node, in depth-first pre-order
\* with the children in their stored order.
C20_ErrorsInPreOrder ==
    Returned => Val(Val(receipt).error) = C20_Tags(Val(root_txn))

\* two failed children with different errors, and a third repeating the first
C20_Witness ==
    /\ Returned
    /\ Len(Val(root_txn).children) = 3
    /\ Val(Val(receipt).error) =
          <<"cskip_no_state", "not_enough_toncoin", "cskip_no_state">>

----------------------------------------------------------------------------
\* TransactionReceipt.from_transaction called on a Transaction tree that the
\* caller built with the constructor: a failed node may have children

RanOk == PhaseResult(TRUE, FALSE, None, Some(0))

\* Transaction(...) without children, one per way traverse can treat a node
DirectKinds ==
    { Transaction("h1", "(0,8000000000000000,2)", "0:node", TRUE, RanOk, RanOk,
                  None, <<"wallet_v5r1">>, <<>>),
      Transaction("h1", "(0,8000000000000000,2)", "0:node", FALSE, RanOk, RanOk,
                  Some("not_enough_toncoin"), <<"nft_item">>, <<>>),
      Transaction("h1", "(0,8000000000000000,2)", "0:node", FALSE, RanOk, RanOk,
                  Some("cskip_no_state"), <<"uninit">>, <<>>),
      Transaction("h1", "(0,8000000000000000,2)", "0:node", FALSE, RanOk, RanOk,
                  None, <<>>, <<>>),
      Transaction("h1", "(0,8000000000000000,2)", "0:node", FALSE, RanOk, RanOk,
                  Some(""), <<"nft_collection">>, <<>>) }

RECURSIVE DirectTreesOfSize(_)
RECURSIVE DirectForestsOfSize(_)

DirectForestsOfSize(n) ==
    IF n = 0 THEN {<<>>}
    ELSE UNION {{<<t>> \o f : t \in DirectTreesOfSize(k),
                              f \in DirectForestsOfSize(n - k)} : k \in 1 .. n}

DirectTreesOfSize(n) ==
    {[kind EXCEPT !.children = f] : kind \in DirectKinds,
                                    f \in DirectForestsOfSize(n - 1)}

DirectTrees == UNION {DirectTreesOfSize(n) : n \in 1 .. MaxNodes}

InitCollapse ==
    /\ code_map = CodeMapTable
    /\ pc = "collapse"
    /\ ExitIdle
    /\ MintIdle
    /\ LiteIdle
    /\ result = None
    /\ root_txn \in {Some(t) : t \in DirectTrees}
    /\ lookups = <<>>
    /\ receipt = None
    /\ raised = ""
    /\ backend_error = None

\* TransactionReceipt.from_transaction(tx, block_hash)
Collapse ==
    /\ pc = "collapse"
    /\ \E h \in {None} \cup {Some(b) : b \in BlockHashes} :
       \E ifaces \in ListsOf(traverse(Val(root_txn)).interfaces) :
          receipt' = Some(from_transaction(Val(root_txn), h, ifaces))
    /\ pc' = "collapsed"
    /\ UNCHANGED <<result, root_txn, lookups, raised, backend_error>>
    /\ UNCHANGED <<code_map, exit_vars, mint_vars, lite_vars>>

NextCollapse == Collapse

SpecCollapse == InitCollapse /\ [][NextCollapse]_vars

RECURSIVE C21_Pruned(_)

\* the tree without the descendants of its failed nodes that carry an error
C21_Pruned(tx) ==
    [tx EXCEPT !.children =
        IF C20_Failed(tx) THEN <<>>
        ELSE [i \in DOMAIN tx.children |-> C21_Pruned(tx.children[i])]]

\* C21: from_transaction, on any Transaction tree, stops at a node with
\* success=false and a non-empty error: it collects that node's error and
\* interfaces and visits none of its descendants, whose errors, interfaces
\* and child counts leave the receipt as it would be without them.
C21_StopsAtFailedNode ==
    pc = "collapsed" =>
        LET r == Val(receipt)
            kept == C21_Pruned(Val(root_txn))
        IN  /\ r.raw_transaction = Val(root_txn)
            /\ Val(r.error) = C20_Tags(kept)
            /\ r.success = (C20_Tags(kept) = <<>>)
            /\ r.batch_transaction =
                  (\E n \in AllNodes(kept) : Len(n.children) >= 2)
            /\ IF TreeInterfaces(kept) = {}
               THEN r.interfaces = None
               ELSE r.interfaces # None
                    /\ SeqToSet(Val(r.interfaces)) = TreeInterfaces(kept)

\* the root failed with an error and has two children, one failed with
\* another error and one with an interface of its own
C21_Witness ==
    /\ pc = "collapsed"
    /\ C20_Failed(Val(root_txn))
    /\ Len(Val(root_txn).children) = 2
    /\ Val(root_txn).children[1].error = Some("cskip_no_state")
    /\ Val(root_txn).children[2].interfaces = <<"wallet_v5r1">>
    /\ Val(Val(receipt).error) = <<"not_enough_toncoin">>
    /\ Val(receipt).interfaces = Some(<<"nft_item">>)
    /\ ~Val(receipt).batch_transaction

\* the interfaces the backend reported for a node, none when the key is missing
C22_Reported(data) ==
    IF "interfaces" \in DOMAIN data THEN data.interfaces ELSE <<>>

\* C22: a reconstructed node gets interfaces = ["uninit"] exactly when the
\* backend reported no interfaces for it and its derived error equals
\* "cskip_no_state"; otherwise its interfaces are those the backend reported,
\* an empty list when none.
C22_UninitPatch ==
    \A p \in Built :
        LET patched == /\ C22_Reported(p[1]) = <<>>
                       /\ p[2].error = Some("cskip_no_state")
        IN  /\ patched => p[2].interfaces = <<"uninit">>
            /\ ~patched => p[2].interfaces = C22_Reported(p[1])
            /\ p[2].interfaces = <<"uninit">> <=> patched

\* a node for which no interfaces were reported and whose compute phase was
\* skipped for want of a contract state
C22_Witness ==
    /\ Reconstructed
    /\ \E p \in Built :
          /\ "interfaces" \notin DOMAIN p[1]
          /\ p[2].error = Some("cskip_no_state")
          /\ p[2].interfaces = <<"uninit">>

\* build_mint_body of a standard base family has returned
C23_Case == mint_pc = "mint_returned" /\ family \in StandardBaseFamilies

\* C23 as claimed: the payload cell referenced by the body of
\* CollectionStandardBase.build_mint_body carries the owner address together
\* with a reference to the item's serialized content: it is the per-item
\* payload build_batch_mint_body of the family stores for that owner and some
\* content.
C23_Original ==
    C23_Case =>
        LET payload == Val(body).refs[1]
            args == Val(mint_args)
        IN  /\ payload.bits = <<<<"address", 267, args.owner_address>>>>
            /\ \E c \in Contents :
                  /\ payload.refs = <<serialize_content(c)>>
                  /\ payload = Payload(standard_batch_item(<<c, args.owner_address>>,
                                                           args.amount))

\* what the code builds: the payload holds the owner address and no
\* reference, so it differs from every batch payload for that owner
C23_MintPayloadHasNoContent ==
    C23_Case =>
        LET payload == Val(body).refs[1]
            args == Val(mint_args)
        IN  /\ payload = [bits |-> <<<<"address", 267, args.owner_address>>>>,
                          refs |-> <<>>]
            /\ \A c \in Contents :
                  payload # Payload(standard_batch_item(<<c, args.owner_address>>,
                                                        args.amount))

\* CollectionStandard.build_mint_body(index=5, owner_address=EQ_owner_a)
C23_Witness ==
    /\ C23_Case
    /\ family = "CollectionStandard"
    /\ Val(mint_args).index = 5
    /\ Val(mint_args).owner_address = "EQ_owner_a"
    /\ Val(body).refs[1].refs = <<>>

\* the authority and the revoked_at a soulbound payload holds
C24_Authority(payload) == payload.bits[2]

C24_RevokedAt(payload) == payload.bits[3]

\* C24: in the soulbound mint and batch-mint builders an authority address
\* that is not supplied is stored as the owner address of the same item, a
\* supplied one is stored unchanged, and in batch mint a missing revoked_at is
\* stored as 0.
C24_SoulboundDefaults ==
    /\ (mint_pc = "mint_returned" /\ family \in SoulboundBaseFamilies) =>
          LET args == Val(mint_args)
              payload == Val(body).refs[1]
          IN  /\ args.authority_address = None =>
                    C24_Authority(payload) = <<"address", 267, args.owner_address>>
              /\ args.authority_address # None =>
                    C24_Authority(payload) =
                        <<"address", 267, Val(args.authority_address)>>
              /\ C24_RevokedAt(payload) = <<"uint", 64, args.revoked_at>>
    /\ (mint_pc = "returned" /\ family \in SoulboundBaseFamilies) =>
          LET args == Val(mint_args) IN
          \A i \in DOMAIN args.data :
              LET item == args.data[i]
                  payload == Payload(BodyDict(Val(body)).map[args.from_index + i - 1])
              IN  /\ item[3] = None =>
                        C24_Authority(payload) = <<"address", 267, item[2]>>
                  /\ item[3] # None =>
                        C24_Authority(payload) = <<"address", 267, Val(item[3])>>
                  /\ item[4] = None => C24_RevokedAt(payload) = <<"uint", 64, 0>>
                  /\ item[4] # None =>
                        C24_RevokedAt(payload) = <<"uint", 64, Val(item[4])>>

\* a batch of three items: two without authority and with different owners,
\* and one with an authority and a revocation time
C24_Witness ==
    /\ mint_pc = "returned"
    /\ family = "CollectionSoulbound"
    /\ Len(Val(mint_args).data) = 3
    /\ Val(mint_args).data[1][2] = "EQ_owner_a" /\ Val(mint_args).data[1][3] = None
    /\ Val(mint_args).data[2][2] = "EQ_owner_b" /\ Val(mint_args).data[2][3] = None
    /\ Val(mint_args).data[3][3] = Some("EQ_authority")
    /\ Val(mint_args).from_index = 5
    /\ C24_Authority(Payload(BodyDict(Val(body)).map[6])) =
          <<"address", 267, "EQ_owner_b">>

\* the backend reported the root of the trace failed or aborted
C25_RootReportedFailed ==
    ~RawFlag(Val(result), "success") \/ RawFlag(Val(result), "aborted")

\* C25 as claimed: a receipt with success=true comes from a tree in which the
\* root and every Transaction have success=true, and never from a trace whose
\* root the backend reported failed or aborted.
C25_Original ==
    (Returned /\ Val(receipt).success) =>
        /\ \A n \in AllNodes(Val(root_txn)) : n.success
        /\ ~C25_RootReportedFailed

\* the backend reported the root failed and aborted with both phases
\* successful: the root has success=false and no error, and the receipt says
\* success
C25_Witness ==
    /\ Returned
    /\ Val(receipt).success
    /\ Val(Val(receipt).error) = <<>>
    /\ ~Val(root_txn).success
    /\ Val(root_txn).error = None
    /\ RawFlag(Val(result), "aborted")
    /\ Val(root_txn).compute_phase.success
    /\ Val(root_txn).action_phase.success

\* a phase of the node was skipped, is missing or was unsuccessful
C26_PhaseFailed(tx) ==
    \/ tx.compute_phase.skipped
    \/ ~tx.compute_phase.success
    \/ ~tx.action_phase.success

\* C26 as claimed: in every reconstructed Transaction success=true implies
\* that the compute phase was not skipped and that both phases were
\* successful; a node with a skipped, missing or unsuccessful phase has a
\* non-None error and success=false, also when the phase has no exit code.
C26_Original ==
    \A p \in Built :
        /\ p[2].success => ~C26_PhaseFailed(p[2])
        /\ C26_PhaseFailed(p[2]) => (p[2].error # None /\ ~p[2].success)

\* the compute phase of a node was unsuccessful and carries no exit code, the
\* backend's flags say success: no error is derived and success stays true
C26_Witness ==
    \E p \in Built :
        /\ "compute_phase" \in DOMAIN TxData(p[1])
        /\ TxData(p[1]).compute_phase = [success |-> FALSE]
        /\ p[2].compute_phase.exit_code = None
        /\ p[2].error = None
        /\ p[2].success

\* the error of the phase that caused the failure of a node, by PhaseResult.error
C27_PhaseError(tx) ==
    IF tx.compute_phase.skipped \/ ~tx.compute_phase.success
    THEN PhaseResult_error(tx.compute_phase)
    ELSE IF ~tx.action_phase.success
         THEN PhaseResult_error(tx.action_phase)
         ELSE None

\* C27 as claimed: the error stored on a reconstructed Transaction equals the
\* PhaseResult.error of the phase that caused it, compute_phase.error when
\* the compute phase is skipped or unsuccessful, otherwise action_phase.error
\* when the action phase is unsuccessful, for every phase input.
C27_Original == \A p \in Built : p[2].error = C27_PhaseError(p[2])

\* the compute phase of a node was skipped with an empty skip reason: the
\* Transaction holds "compute_phase_skipped", PhaseResult.error gives None
C27_Witness ==
    \E p \in Built :
        /\ p[2].compute_phase.skipped
        /\ p[2].compute_phase.skip_reason = Some(<<>>)
        /\ p[2].error = Some("compute_phase_skipped")
        /\ PhaseResult_error(p[2].compute_phase) = None

----------------------------------------------------------------------------
\* LiteserverClient with operations awaited concurrently (asyncio.gather on
\* one client): a caller may start an operation while another is suspended.
\* start_up succeeds and nobody closes the client.

NextLiteConcurrent ==
    \E t \in Tasks :
        \/ LiteCall(t)
        \/ StartUpReturns(t)
        \/ BalancerReturns(t)

SpecLiteConcurrent == InitLite /\ [][NextLiteConcurrent]_vars

\* the positions of the log at which start_up was invoked
C28_StartUps == {i \in DOMAIN lite_log : lite_log[i].method = "start_up"}

\* C28 as claimed: on a client whose balancer is not yet inited, under every
\* interleaving of operations awaited concurrently, start_up is invoked at
\* most once and no balancer operation runs before that start_up has
\* completed.
C28_Original ==
    /\ Cardinality(C28_StartUps) <= 1
    /\ \A i \in DOMAIN lite_log :
          lite_log[i].method \in BalancerMethods =>
              /\ lite_log[i].inited
              /\ \E j \in 1 .. (i - 1) : lite_log[j].method = "start_up"

\* two callers each found the balancer not inited and each invoked start_up
C28_Witness ==
    /\ Cardinality(C28_StartUps) = 2
    /\ \A i \in C28_StartUps : ~lite_log[i].inited
    /\ lite_log[1].task # lite_log[2].task
    /\ tasks[1].pc = "start_up"
    /\ tasks[2].pc = "start_up"

\* the payload cell build_mint_body of the soulbound family references when
\* called for an item of a batch, a revoked_at left out being its default 0
C29_MintPayload(item, index, args) ==
    Val(soulbound_build_mint_body(
            [index |-> index, owner_address |-> item[2], content |-> item[1],
             authority_address |-> item[3],
             revoked_at |-> IF item[4] = None THEN 0 ELSE Val(item[4]),
             amount |-> args.amount_per_one,
             query_id |-> args.query_id]).cell).refs[1]

\* C29: for the soulbound family the payload cell build_batch_mint_body
\* stores behind the amount under key from_index+i has the same bits and the
\* same references as the payload cell build_mint_body references for the
\* same owner, content, authority and revoked_at, although the content
\* reference is appended at different positions.
C29_BatchPayloadIsMintPayload ==
    (mint_pc = "returned" /\ family \in SoulboundBaseFamilies) =>
        LET args == Val(mint_args) IN
        \A i \in DOMAIN args.data :
            LET key == args.from_index + i - 1
                stored == Payload(BodyDict(Val(body)).map[key])
                minted == C29_MintPayload(args.data[i], key, args)
            IN  /\ stored.bits = minted.bits
                /\ stored.refs = minted.refs
                /\ Len(stored.bits) = 3
                /\ stored.refs = <<serialize_content(args.data[i][1])>>

\* a batch with an item that names an authority and a revocation time and an
\* item that names neither
C29_Witness ==
    /\ mint_pc = "returned"
    /\ family = "CollectionSoulboundModified"
    /\ Len(Val(mint_args).data) = 2
    /\ Val(mint_args).data[1][3] = Some("EQ_authority")
    /\ Val(mint_args).data[1][4] = Some(1700000000)
    /\ Val(mint_args).data[2][3] = None
    /\ Val(mint_args).data[1][1] # Val(mint_args).data[2][1]

====
